---- MODULE Spec2Model ----
(***************************************************************************)
(* Model of the product recommendation pipeline of server.js:              *)
(* GET /api/recommendations (category sampling, upstream queries, record   *)
(* normalisation, language filter, candidate selection, margins, scoring,  *)
(* final sort, niche aggregation) together with POST /api/config and the   *)
(* lazily built OpenAI client.                                             *)
(*                                                                         *)
(* Encoding of JavaScript values.  A value is a record [t, s, n]:          *)
(*   t = "undef"  undefined (an absent key)                                *)
(*   t = "str"    a string, s its characters (one-character strings)       *)
(*   t = "num"    a finite number, n its value                             *)
(*   t = "nan"    NaN                                                      *)
(* Upstream counters and minor-unit prices are integers.  A price in USD   *)
(* is a number whose n counts units of 1/PriceScale dollar, which is exact *)
(* for decimal strings of up to five decimals and for x / 25000.           *)
(***************************************************************************)
EXTENDS Integers, Sequences, FiniteSets, TLC

Undef == [t |-> "undef", s |-> <<>>, n |-> 0]
NaN == [t |-> "nan", s |-> <<>>, n |-> 0]
Str(chars) == [t |-> "str", s |-> chars, n |-> 0]
Num(k) == [t |-> "num", s |-> <<>>, n |-> k]

\* ToBoolean: undefined, "", 0 and NaN are falsy.
Truthy(v) ==
  \/ v.t = "str" /\ Len(v.s) > 0
  \/ v.t = "num" /\ v.n # 0

\* a || b
Or2(a, b) == IF Truthy(a) THEN a ELSE b

Digits == <<"0", "1", "2", "3", "4", "5", "6", "7", "8", "9">>
IsDigit(c) == \E i \in 1..10 : Digits[i] = c
DigitVal(c) == (CHOOSE i \in 1..10 : Digits[i] = c) - 1
\* [a-zA-Z]
AsciiLetters ==
  {"a", "b", "c", "d", "e", "f", "g", "h", "i", "j", "k", "l", "m",
   "n", "o", "p", "q", "r", "s", "t", "u", "v", "w", "x", "y", "z",
   "A", "B", "C", "D", "E", "F", "G", "H", "I", "J", "K", "L", "M",
   "N", "O", "P", "Q", "R", "S", "T", "U", "V", "W", "X", "Y", "Z"}
\* \s
Whitespace == {" "}

\* Price units in one dollar: prices are kept to PriceDecimals decimals.
PriceDecimals == 5
PriceScale == 100000

RECURSIVE Pow10(_)
Pow10(k) == IF k = 0 THEN 1 ELSE 10 * Pow10(k - 1)

\* String.prototype.replace(/re/g, '') : drop every character in the class.
RECURSIVE RemoveChars(_, _)
RemoveChars(chars, drop) ==
  IF chars = <<>> THEN <<>>
  ELSE IF Head(chars) \in drop THEN RemoveChars(Tail(chars), drop)
  ELSE <<Head(chars)>> \o RemoveChars(Tail(chars), drop)

\* String.prototype.replace(/[^0-9.]/g, '') : keep digits and dots only.
RECURSIVE KeepNumeric(_)
KeepNumeric(chars) ==
  IF chars = <<>> THEN <<>>
  ELSE IF IsDigit(Head(chars)) \/ Head(chars) = "." THEN <<Head(chars)>> \o KeepNumeric(Tail(chars))
  ELSE KeepNumeric(Tail(chars))

\* Length of the longest prefix of digits.
RECURSIVE DigitRun(_)
DigitRun(chars) ==
  IF chars = <<>> \/ ~IsDigit(Head(chars)) THEN 0 ELSE 1 + DigitRun(Tail(chars))

\* Value of a string of digits.
RECURSIVE DigitsValue(_)
DigitsValue(chars) ==
  IF chars = <<>> THEN 0
  ELSE 10 * DigitsValue(SubSeq(chars, 1, Len(chars) - 1)) + DigitVal(chars[Len(chars)])

RECURSIVE SkipSpace(_)
SkipSpace(chars) ==
  IF chars # <<>> /\ Head(chars) \in Whitespace THEN SkipSpace(Tail(chars)) ELSE chars

\* The leading digits of a string, and what follows them.
LeadingDigits(chars) == SubSeq(chars, 1, DigitRun(chars))
AfterDigits(chars) == SubSeq(chars, DigitRun(chars) + 1, Len(chars))

\* The numeric prefix parseFloat reads: leading white space, an optional sign,
\* then the longest prefix  digits [. digits]  or  . digits .  ok is FALSE when
\* there is none (parseFloat then returns NaN).  whole is TRUE when nothing but
\* white space follows the prefix.  (Exponents and "Infinity" are not read: no
\* price string of the model holds a letter after its digits.)
NumericPrefix(chars0) ==
  LET Parts(neg, int, frac, after) ==
        [ok |-> int # <<>> \/ frac # <<>>,
         neg |-> neg,
         int |-> DigitsValue(int),
         frac |-> IF Len(frac) > PriceDecimals
                    THEN DigitsValue(SubSeq(frac, 1, PriceDecimals))
                    ELSE DigitsValue(frac) * Pow10(PriceDecimals - Len(frac)),
         whole |-> SkipSpace(after) = <<>>]
      Mantissa(neg, body, rest) ==
        IF rest # <<>> /\ Head(rest) = "."
          THEN Parts(neg, LeadingDigits(body), LeadingDigits(Tail(rest)), AfterDigits(Tail(rest)))
          ELSE Parts(neg, LeadingDigits(body), <<>>, rest)
      Unsigned(neg, body) == Mantissa(neg, body, AfterDigits(body))
      Trimmed(chars) ==
        IF chars # <<>> /\ Head(chars) \in {"-", "+"}
          THEN Unsigned(Head(chars) = "-", Tail(chars))
          ELSE Unsigned(FALSE, chars)
  IN Trimmed(SkipSpace(chars0))

Signed(neg, mag) == IF neg THEN 0 - mag ELSE mag

\* parseFloat(string), in price units.
parseFloatChars(chars) ==
  LET Value(p) == IF ~p.ok THEN NaN ELSE Num(Signed(p.neg, p.int * PriceScale + p.frac))
  IN Value(NumericPrefix(chars))

\* parseFloat(string) / 25000, in price units (PriceScale / 25000 = 4 units for
\* each whole unit parsed, so that a large Dong amount stays in range).
VndRate == 25000
parseFloatDivRate(chars) ==
  LET Value(p) ==
        IF ~p.ok THEN NaN
        ELSE Num(Signed(p.neg, p.int * (PriceScale \div VndRate) + (p.frac \div VndRate)))
  IN Value(NumericPrefix(chars))

\* ToNumber(string), in price units: the whole string must be a numeric
\* literal; the empty string is 0.
ToNumberChars(chars) ==
  LET Value(p) ==
        IF SkipSpace(chars) = <<>> THEN Num(0)
        ELSE IF p.ok /\ p.whole THEN Num(Signed(p.neg, p.int * PriceScale + p.frac))
        ELSE NaN
  IN Value(NumericPrefix(chars))

\* parseInt(v) for an integer number or a string: the integer prefix, or NaN.
parseInt(v) ==
  LET Unsigned(neg, body) ==
        IF DigitRun(body) = 0 THEN NaN
        ELSE Num(Signed(neg, DigitsValue(LeadingDigits(body))))
      Trimmed(chars) ==
        IF chars # <<>> /\ Head(chars) \in {"-", "+"}
          THEN Unsigned(Head(chars) = "-", Tail(chars))
          ELSE Unsigned(FALSE, chars)
  IN IF v.t = "num" THEN v
     ELSE IF v.t = "str" THEN Trimmed(SkipSpace(v.s))
     ELSE NaN

\* Number comparisons; any comparison with NaN is false.
Gt(a, b) == a.t = "num" /\ b.t = "num" /\ a.n > b.n
Lt(a, b) == a.t = "num" /\ b.t = "num" /\ a.n < b.n

(***************************************************************************)
(* RawItem: one upstream record.  Nested objects are flattened: hasPriceInfo*)
(* says whether item.product_price_info is present, and likewise for       *)
(* sold_info, statistics and rate_info; a field of an absent object is     *)
(* Undef.                                                                  *)
(***************************************************************************)
EmptyItem ==
  [hasPriceInfo |-> FALSE,
   sale_price_decimal |-> Undef, sale_price_format |-> Undef,
   pi_min_price |-> Undef, pi_price |-> Undef,
   currency_name |-> Undef, currency_symbol |-> Undef,
   price |-> Undef, min_price |-> Undef,
   hasSoldInfo |-> FALSE, si_sold_count |-> Undef, si_sales |-> Undef,
   sold_count |-> Undef, sales |-> Undef,
   product_name |-> Undef, title |-> Undef,
   product_img_url |-> Undef, image |-> Undef, cover |-> Undef,
   hasStatistics |-> FALSE, play_count |-> Undef, digg_count |-> Undef,
   hasRateInfo |-> FALSE, view_count |-> Undef, like_count |-> Undef]

\* server.js 346-349: the first truthy of the four price fields, else '0'.
priceStr(item) ==
  Or2(item.sale_price_decimal,
      Or2(item.sale_price_format,
          Or2(item.pi_min_price,
              Or2(item.pi_price, Str(<<"0">>)))))

\* priceStr.replace(...) raises a TypeError unless priceStr is a string.
PriceThrows(item) == item.hasPriceInfo /\ priceStr(item).t # "str"

\* x / 100 for the top-level minor-unit price (ToNumber of a string first).
DivHundred(v) ==
  IF v.t = "num" THEN Num(v.n * (PriceScale \div 100))
  ELSE IF v.t = "str" THEN
    LET Hundredth(k) == IF k.t = "num" THEN Num(k.n \div 100) ELSE NaN
    IN Hundredth(ToNumberChars(v.s))
  ELSE NaN

\* parseFloat(v) of a string or an integer number.
parseFloatValue(v) ==
  IF v.t = "str" THEN parseFloatChars(v.s)
  ELSE IF v.t = "num" THEN Num(v.n * PriceScale)
  ELSE NaN

\* server.js 343-367: the price of an item, in price units (defined when
\* PriceThrows(item) is false).
extractPrice(item) ==
  IF item.hasPriceInfo THEN
    IF item.currency_name = Str(<<"V", "N", "D">>)
      THEN parseFloatDivRate(RemoveChars(priceStr(item).s, {"."}))
    ELSE IF item.currency_name = Str(<<"U", "S", "D">>) \/ item.currency_symbol = Str(<<"$">>)
      THEN parseFloatChars(RemoveChars(priceStr(item).s, {","}))
    ELSE parseFloatChars(KeepNumeric(priceStr(item).s))
  ELSE IF Truthy(item.price) THEN DivHundred(item.price)
  ELSE IF Truthy(item.min_price) THEN parseFloatValue(item.min_price)
  ELSE Num(0)

\* server.js 369-375: the sold count.
extractSold(item) ==
  IF item.hasSoldInfo
    THEN parseInt(Or2(item.si_sold_count, Or2(item.si_sales, Num(0))))
    ELSE Or2(item.sold_count, Or2(item.sales, Num(0)))

\* x?.play_count > 0
Positive(v) == v.t = "num" /\ v.n > 0

\* (likes / views * 100).toFixed(2), as hundredths of a percent, rounding the
\* exact quotient half up.
EngagementHundredths(likes, views) == (likes * 20000 + views) \div (2 * views)

\* server.js 384-386: a string of the percentage with 2 decimals (kept as its
\* value in hundredths) when statistics.play_count > 0, the number 0 otherwise.
extractEngagement(item) ==
  IF Positive(item.play_count)
    THEN [fixed |-> TRUE,
          hundredths |-> EngagementHundredths(Or2(item.digg_count, Num(0)).n, item.play_count.n)]
    ELSE [fixed |-> FALSE, hundredths |-> 0]

\* server.js 377-389: the Product built from one item of a category.
processItem(item, category) ==
  [title |-> Or2(item.product_name, Or2(item.title, Str(<<"N", "o", " ", "t", "i", "t", "l", "e">>))),
   image |-> Or2(item.product_img_url, Or2(item.image, Or2(item.cover, Str(<<>>)))),
   views |-> Or2(item.play_count, Or2(item.view_count, Num(0))),
   likes |-> Or2(item.digg_count, Or2(item.like_count, Num(0))),
   sold |-> extractSold(item),
   price |-> extractPrice(item),
   engagement |-> extractEngagement(item),
   category |-> category,
   rawData |-> item]

\* server.js 76-83: isEnglish(text).
CountIn(chars, set) == Cardinality({i \in 1..Len(chars) : chars[i] \in set})
\* Mutant: white space counts among the characters.
isEnglishCountingSpaces(text) ==
  IF ~Truthy(text) THEN FALSE
  ELSE Len(text.s) > 0 /\ CountIn(text.s, AsciiLetters) * 2 >= Len(text.s)
isEnglish(text) ==
  IF ~Truthy(text) THEN FALSE
  ELSE LET englishChars == CountIn(text.s, AsciiLetters)
           totalChars == Len(RemoveChars(text.s, Whitespace))
       IN totalChars > 0 /\ englishChars * 2 >= totalChars

\* text.match raises a TypeError when a truthy title is not a string.
isEnglishThrows(text) == Truthy(text) /\ text.t # "str"

(***************************************************************************)
(* Margins and sourcing.                                                   *)
(***************************************************************************)
\* Mutant: toFixed truncates instead of rounding.
RoundDivDown(a, b) == a \div b

\* Number.prototype.toFixed of the exact quotient a / b (b > 0): the nearest
\* integer, a tie going away from zero.
RoundDiv(a, b) ==
  IF a >= 0 THEN (2 * a + b) \div (2 * b) ELSE 0 - ((2 * (0 - a) + b) \div (2 * b))

ShippingDollars == 5

\* (profit / price * 100).toFixed(1) in tenths of a percent, for a price of u
\* units: profit / price * 100 = 30 - 500 * PriceScale / u, whose tenths are
\* 300 - q - r / u with q, r the quotient and remainder of 5000 * PriceScale
\* by u.
MarginTenths(u) ==
  LET a == ShippingDollars * 1000 * PriceScale
      q == a \div u
      r == a % u
      m == 300 - q
  IN IF r = 0 THEN m
     ELSE IF m >= 1 THEN (IF 2 * r <= u THEN m ELSE m - 1)
     ELSE (IF 2 * r < u THEN m ELSE m - 1)

\* server.js 86-107: calculateMargins(tiktokPrice) for a price of u > 0 units.
\* The toFixed(2) strings are kept as cents, profitMargin as tenths.
calculateMargins(tiktokPrice) ==
  LET u == tiktokPrice.n
      tenth == PriceScale \div 10
  IN [sellingPrice |-> tiktokPrice,
      supplierPrice |-> RoundDiv(3 * u, tenth),
      shippingCost |-> ShippingDollars * 100,
      adCost |-> RoundDiv(u, PriceScale \div 25),
      platformFees |-> RoundDiv(3 * u, PriceScale \div 5),
      totalCost |-> RoundDiv(7 * u + ShippingDollars * 10 * PriceScale, tenth),
      profit |-> RoundDiv(3 * u - ShippingDollars * 10 * PriceScale, tenth),
      profitMargin |-> MarginTenths(u)]

\* encodeURIComponent of one character of the model's alphabet, whose only
\* character outside ASCII is U+54C1 (three UTF-8 bytes).
EncodeChar(c) ==
  IF c \in AsciiLetters \/ IsDigit(c) \/ c \in {"-", "."} THEN <<c>>
  ELSE IF c = " " THEN <<"%", "2", "0">>
  ELSE IF c = "$" THEN <<"%", "2", "4">>
  ELSE IF c = "," THEN <<"%", "2", "C">>
  ELSE IF c = "+" THEN <<"%", "2", "B">>
  ELSE <<"%", "E", "5", "%", "9", "3", "%", "8", "1">>

RECURSIVE encodeURIComponent(_)
encodeURIComponent(chars) ==
  IF chars = <<>> THEN <<>> ELSE EncodeChar(Head(chars)) \o encodeURIComponent(Tail(chars))

\* server.js 110-134: the three sourcing options of a product name; a url is
\* kept as its site and its encoded query.
getSourcingRecommendations(productName) ==
  LET q == encodeURIComponent(productName.s)
  IN << [supplier |-> "AliExpress", url |-> q, avgPrice |-> "Low",
         shippingTime |-> "15-30 days", reliability |-> "Medium"],
        [supplier |-> "CJ Dropshipping", url |-> q, avgPrice |-> "Medium",
         shippingTime |-> "7-15 days", reliability |-> "High"],
        [supplier |-> "Spocket", url |-> q, avgPrice |-> "High",
         shippingTime |-> "2-7 days", reliability |-> "High"] >>

(***************************************************************************)
(* Array helpers.                                                          *)
(***************************************************************************)
\* Array.prototype.slice(0, k)
Take(seq, k) == SubSeq(seq, 1, IF Len(seq) < k THEN Len(seq) ELSE k)

\* Array.prototype.filter, by the set of indices kept.
RECURSIVE KeepIndices(_, _)
KeepIndices(seq, keep) ==
  IF seq = <<>> THEN <<>>
  ELSE LET n == Len(seq)
           front == KeepIndices(SubSeq(seq, 1, n - 1), keep)
       IN IF n \in keep THEN Append(front, seq[n]) ELSE front

\* Array.prototype.sort((a, b) => key(b) - key(a)) as a stable insertion sort
\* on the comparator: an element moves before its left neighbour only when the
\* comparator is positive, that is when both keys are numbers and its key is
\* the greater (a NaN difference counts as 0).  order is a sequence of indices
\* into keys.
RECURSIVE InsertDesc(_, _, _)
InsertDesc(order, i, keys) ==
  IF order = <<>> THEN <<i>>
  ELSE LET n == Len(order)
       IN IF Gt(keys[i], keys[order[n]])
            THEN Append(InsertDesc(SubSeq(order, 1, n - 1), i, keys), order[n])
            ELSE Append(order, i)

RECURSIVE SortOrder(_, _)
SortOrder(k, keys) ==
  IF k = 0 THEN <<>> ELSE InsertDesc(SortOrder(k - 1, keys), k, keys)

SortDescBy(seq, keys) ==
  LET order == SortOrder(Len(seq), keys)
  IN [j \in 1..Len(seq) |-> seq[order[j]]]

\* a + b on numbers
Add(a, b) == IF a.t = "num" /\ b.t = "num" THEN Num(a.n + b.n) ELSE NaN

(***************************************************************************)
(* Candidate selection (server.js 421-433).                                *)
(***************************************************************************)
MinPrice == 0
MaxPrice == 200
MaxCandidates == 20

\* Mutant: the upper limit of the price range is forgotten.
PriceValidNoUpper(p) == Gt(p.price, Num(MinPrice * PriceScale))

\* p.price > 0 && p.price < 200
PriceValid(p) == Gt(p.price, Num(MinPrice * PriceScale)) /\ Lt(p.price, Num(MaxPrice * PriceScale))

\* views + likes + sold
Popularity(p) == Add(Add(p.views, p.likes), p.sold)

\* Mutant: the candidates are filtered and cut, but not ranked.
validProductsUnranked(pool) ==
  Take(KeepIndices(pool, {i \in 1..Len(pool) : PriceValid(pool[i])}), MaxCandidates)

validProductsOf(pool) ==
  LET kept == KeepIndices(pool, {i \in 1..Len(pool) : PriceValid(pool[i])})
      keys == [i \in 1..Len(kept) |-> Popularity(kept[i])]
  IN Take(SortDescBy(kept, keys), MaxCandidates)

\* { ...p, margins, sourcing }
WithAnalysis(p) ==
  p @@ [margins |-> calculateMargins(p.price),
        sourcing |-> getSourcingRecommendations(p.title)]

productsWithAnalysisOf(valid) == [i \in 1..Len(valid) |-> WithAnalysis(valid[i])]

(***************************************************************************)
(* Scoring (server.js 137-197).                                            *)
(***************************************************************************)
\* Math.random() is k / RandomSteps for a k in 0..RandomSteps-1.
RandomSteps == 60
ScoreBase == 70
ScoreSpan == 30
DefaultScore == 75
MaxSummaries == 10

\* Mutant: the random number is not scaled to the span of 30.
randomScoreUnscaled(k) == Num(k + ScoreBase)

\* Math.floor(Math.random() * 30) + 70
randomScore(k) == Num((k * ScoreSpan) \div RandomSteps + ScoreBase)
\* Math.random() > 0.5
overHalf(k) == 2 * k > RandomSteps

\* The k-th draw of a stream of random numbers (a pattern, repeated).
Draw(stream, k) == stream[((k - 1) % Len(stream)) + 1]

\* Mutant: the scoring hands the product on without its sourcing.
ScoredWithoutSourcing(p, aiScore, trend, competition, recommendation) ==
  [p EXCEPT !.sourcing = <<>>] @@
    [aiScore |-> aiScore, trend |-> trend, competition |-> competition,
     recommendation |-> recommendation]

\* { ...p, aiScore, trend, competition, recommendation }
Scored(p, aiScore, trend, competition, recommendation) ==
  p @@ [aiScore |-> aiScore, trend |-> trend, competition |-> competition,
        recommendation |-> recommendation]

\* server.js 141-147: no client; three draws for each product, in order.
scoreWithoutClient(products, stream) ==
  [i \in 1..Len(products) |->
    Scored(products[i],
           randomScore(Draw(stream, 3 * i - 2)),
           IF overHalf(Draw(stream, 3 * i - 1)) THEN "Rising" ELSE "Stable",
           IF overHalf(Draw(stream, 3 * i)) THEN "Medium" ELSE "High",
           "Analyze manually for best results")]

\* Mutant: the catch branch gives up the batch.
scoreAfterErrorEmpty(products, stream) == <<>>

\* Mutant: the catch branch hands out the defaults of the merge.
scoreAfterErrorDefaults(products, stream) ==
  [i \in 1..Len(products) |->
    Scored(products[i], Num(DefaultScore), "Stable", "Medium", "Manual analysis recommended")]

\* server.js 189-195: the catch branch; one draw for each product.
scoreAfterError(products, stream) ==
  [i \in 1..Len(products) |->
    Scored(products[i], randomScore(Draw(stream, i)), "Unknown", "Medium",
           "Manual analysis recommended")]

\* products.slice(0, 10): the positions summarised in the prompt.
summarized(products) == 1..Len(Take(products, MaxSummaries))

(***************************************************************************)
(* What the chat completion call produces.  kind is one of                 *)
(*   "reject"            the call rejects (transport error, timeout, 4xx)  *)
(*   "nochoices"         response.choices is empty                         *)
(*   "unparseable"       the content is not JSON                           *)
(*   "null"              the content is the JSON null                      *)
(*   "productsNotArray"  {"products": {...}}: products is not an array     *)
(*   "scalar"            the content is a JSON number                      *)
(*   "nested"            {"analysis": [entries]}: one key, not "products"  *)
(*   "products"          {"products": [entries]}                           *)
(*   "values"            [entries], or an object whose values are entries  *)
(* An entry is [isNull, productIndex, aiScore, trend, competition,         *)
(* recommendation]; a label that is absent is "".                          *)
(***************************************************************************)
NullEntry ==
  [isNull |-> TRUE, productIndex |-> Undef, aiScore |-> Undef, trend |-> "",
   competition |-> "", recommendation |-> ""]
Entry(k, score, trend, competition, recommendation) ==
  [isNull |-> FALSE, productIndex |-> k, aiScore |-> score, trend |-> trend,
   competition |-> competition, recommendation |-> recommendation]

\* server.js 166-173: the call, response.choices[0] or JSON.parse raises.
callThrows(outcome) == outcome.kind \in {"reject", "nochoices", "unparseable"}

\* server.js 174: analysis.products || Object.values(analysis) raises on
\* null; .find is missing when products is not an array.
arrayThrows(outcome) == outcome.kind \in {"null", "productsNotArray"}

\* server.js 174: analysisArray.  The single value of a "nested" answer is
\* an array: it has no productIndex and matches no position.
analysisArrayOf(outcome) ==
  IF outcome.kind \in {"products", "values"} THEN outcome.entries ELSE <<>>

\* a.productIndex === k
Matches(a, k) == ~a.isNull /\ a.productIndex = Num(k)

\* analysisArray.find(a => a.productIndex === k): the index of the first
\* match, 0 when there is none.
findIndex(arr, k) ==
  IF \E j \in 1..Len(arr) : Matches(arr[j], k)
    THEN CHOOSE j \in 1..Len(arr) :
           Matches(arr[j], k) /\ \A h \in 1..(j - 1) : ~Matches(arr[h], k)
    ELSE 0

\* The callback reads a.productIndex of every element up to the first match:
\* a null element met on the way raises a TypeError.
findThrows(arr, k) ==
  \E j \in 1..Len(arr) :
    arr[j].isNull /\ \A h \in 1..(j - 1) : ~Matches(arr[h], k)

\* s || d on labels
OrLabel(s, d) == IF s = "" THEN d ELSE s

\* server.js 176-185: the merge of one product with the answer.
mergeOne(p, arr, k) ==
  LET j == findIndex(arr, k)
      aiData == IF j = 0 THEN Entry(Undef, Undef, "", "", "") ELSE arr[j]
  IN Scored(p,
            Or2(aiData.aiScore, Num(DefaultScore)),
            OrLabel(aiData.trend, "Stable"),
            OrLabel(aiData.competition, "Medium"),
            OrLabel(aiData.recommendation, "Good potential for dropshipping"))

\* Whether anything inside the try block raises.
tryThrows(products, outcome) ==
  \/ callThrows(outcome)
  \/ arrayThrows(outcome)
  \/ \E i \in 1..Len(products) : findThrows(analysisArrayOf(outcome), i)

\* server.js 176-185: the merge, when nothing raises.
mergeAll(products, outcome) ==
  [i \in 1..Len(products) |-> mergeOne(products[i], analysisArrayOf(outcome), i)]

(***************************************************************************)
(* Final sort and niches (server.js 439-460).                              *)
(***************************************************************************)
\* Mutant: the scored products are returned in the order they were scored.
sortedProductsUnsorted(analyzed) == analyzed

sortedProductsOf(analyzed) ==
  SortDescBy(analyzed, [i \in 1..Len(analyzed) |-> analyzed[i].aiScore])

\* The categories in the order their keys are created in niches.
RECURSIVE CategoryOrder(_)
CategoryOrder(products) ==
  IF products = <<>> THEN <<>>
  ELSE LET n == Len(products)
           front == CategoryOrder(SubSeq(products, 1, n - 1))
       IN IF \E j \in 1..Len(front) : front[j] = products[n].category
            THEN front ELSE Append(front, products[n].category)

RECURSIVE SumOver(_, _, _)
SumOver(products, category, field) ==
  IF products = <<>> THEN Num(0)
  ELSE LET p == Head(products)
           rest == SumOver(Tail(products), category, field)
       IN IF p.category # category THEN rest
          ELSE IF field = "aiScore" THEN Add(p.aiScore, rest)
          ELSE Add(Or2(p.sold, Num(0)), rest)

\* Mutant: the mean is truncated instead of rounded.
MathRoundDown(sum, count) ==
  IF sum.t = "num" THEN Num(sum.n \div count) ELSE NaN

\* Math.round(sum / count): the nearest integer, a tie going up.
MathRound(sum, count) ==
  IF sum.t = "num" THEN Num((2 * sum.n + count) \div (2 * count)) ELSE NaN

nicheOf(products, category) ==
  LET count == Cardinality({i \in 1..Len(products) : products[i].category = category})
  IN [category |-> category,
      count |-> count,
      avgScore |-> MathRound(SumOver(products, category, "aiScore"), count),
      totalSales |-> SumOver(products, category, "sold")]

\* Mutant: the niches stay in the order their keys were created.
trendingNichesUnsorted(products) ==
  LET cats == CategoryOrder(products)
  IN [j \in 1..Len(cats) |-> nicheOf(products, cats[j])]

trendingNichesOf(products) ==
  LET cats == CategoryOrder(products)
      niches == [j \in 1..Len(cats) |-> nicheOf(products, cats[j])]
  IN SortDescBy(niches, [j \in 1..Len(niches) |-> niches[j].avgScore])

\* server.js 462-468: the successful response.
successResponse(analyzed) ==
  LET sortedProducts == sortedProductsOf(analyzed)
  IN [success |-> TRUE,
      products |-> sortedProducts,
      niches |-> trendingNichesOf(sortedProducts),
      totalProducts |-> Len(sortedProducts),
      error |-> ""]

\* server.js 405-408 and 472: an unsuccessful response.
failureResponse(message) ==
  [success |-> FALSE, products |-> <<>>, niches |-> <<>>, totalProducts |-> 0,
   error |-> message]

(***************************************************************************)
(* The upstream records of the model.                                      *)
(***************************************************************************)
Usd == Str(<<"U", "S", "D">>)
Vnd == Str(<<"V", "N", "D">>)

\* $12.99 by the decimal string, 1000 views, 50 likes, 40 sold.
ItemUsd ==
  [EmptyItem EXCEPT !.hasPriceInfo = TRUE,
     !.sale_price_decimal = Str(<<"1", "2", ".", "9", "9">>), !.currency_name = Usd,
     !.hasSoldInfo = TRUE, !.si_sold_count = Num(40),
     !.product_name = Str(<<"M", "u", "g">>),
     !.hasStatistics = TRUE, !.play_count = Num(1000), !.digg_count = Num(50)]
\* $19.99 by the top-level minor units, 300 views, 30 likes, 5 sold.
ItemCents ==
  [EmptyItem EXCEPT !.price = Num(1999), !.title = Str(<<"L", "e", "d", " ", "2">>),
     !.hasRateInfo = TRUE, !.view_count = Num(300), !.like_count = Num(30),
     !.sold_count = Num(5)]
\* 250.000 Dong = $10, 300 views, 23 likes, 12 sold (a string).
ItemVnd ==
  [EmptyItem EXCEPT !.hasPriceInfo = TRUE,
     !.sale_price_format = Str(<<"2", "5", "0", ".", "0", "0", "0">>), !.currency_name = Vnd,
     !.hasSoldInfo = TRUE, !.si_sales = Str(<<"1", "2">>),
     !.product_name = Str(<<"a", "b", "1", "2">>),
     !.hasStatistics = TRUE, !.play_count = Num(300), !.digg_count = Num(23)]
\* No price field at all inside product_price_info: '0'.  Very popular.
ItemZero ==
  [EmptyItem EXCEPT !.hasPriceInfo = TRUE, !.product_name = Str(<<"T", "o", "y">>),
     !.hasStatistics = TRUE, !.play_count = Num(9000), !.digg_count = Num(900)]
\* An unparseable price.  Very popular.
ItemNaN ==
  [EmptyItem EXCEPT !.hasPriceInfo = TRUE, !.pi_price = Str(<<"N", "/", "A">>),
     !.product_name = Str(<<"C", "a", "p">>),
     !.hasStatistics = TRUE, !.play_count = Num(8000), !.digg_count = Num(10)]
\* "$12,99" with the dollar symbol: NaN (the string starts with "$").
ItemSymbol ==
  [EmptyItem EXCEPT !.hasPriceInfo = TRUE,
     !.sale_price_format = Str(<<"$", "1", "2", ",", "9", "9">>), !.currency_symbol = Str(<<"$">>),
     !.product_name = Str(<<"B", "a", "g">>), !.sold_count = Num(7000)]
\* "1,299" dollars: 1299, above the range.  Very popular.
ItemHigh ==
  [EmptyItem EXCEPT !.hasPriceInfo = TRUE,
     !.sale_price_decimal = Str(<<"1", ",", "2", "9", "9">>), !.currency_name = Usd,
     !.product_name = Str(<<"T", "V">>), !.sold_count = Num(7000)]
\* Exactly $200 by the top-level min_price.
ItemLimit ==
  [EmptyItem EXCEPT !.min_price = Str(<<"2", "0", "0">>), !.title = Str(<<"P", "a", "n">>),
     !.sold_count = Num(6000)]
\* A negative price.
ItemNegative ==
  [EmptyItem EXCEPT !.price = Num(0 - 500), !.title = Str(<<"P", "e", "n">>),
     !.sold_count = Num(5000)]
\* A title that is not English, with a valid price.
ItemForeign ==
  [EmptyItem EXCEPT !.price = Num(1500), !.title = Str(<<"品", "品", "a">>),
     !.sold_count = Num(4000)]
\* $199.99, no counters and no title.
ItemPlain ==
  [EmptyItem EXCEPT !.hasPriceInfo = TRUE,
     !.pi_min_price = Str(<<"1", "9", "9", ".", "9", "9">>), !.currency_name = Str(<<"E", "U", "R">>)]

\* product_price_info.sale_price_decimal given as the number 12.99 instead of
\* a string (only its type is read: priceStr.replace raises before any
\* arithmetic).
ItemNumberPrice ==
  [EmptyItem EXCEPT !.hasPriceInfo = TRUE, !.sale_price_decimal = Num(13), !.currency_name = Usd,
     !.product_name = Str(<<"C", "u", "p">>), !.sold_count = Num(3)]

\* What one category returns: patterns of records, repeated to a length.
PatternValid == <<ItemUsd, ItemCents, ItemVnd>>
PatternMixed ==
  <<ItemZero, ItemCents, ItemNaN, ItemPlain, ItemHigh, ItemUsd, ItemLimit,
    ItemNegative, ItemForeign, ItemSymbol>>
PatternInvalid == <<ItemZero, ItemNaN, ItemHigh>>
PatternMismatch == <<ItemUsd, ItemNumberPrice, ItemCents>>
Patterns == {PatternValid, PatternMixed, PatternInvalid, PatternMismatch}

Repeat(pattern, n) == [i \in 1..n |-> pattern[((i - 1) % Len(pattern)) + 1]]

\* The longest answer of a category; answers are empty or longest.
MaxResponseLen == 9
ResponseLens == {0, MaxResponseLen}

\* The upstream answers: the query fails (transport error, non-2xx), or it
\* returns a list of records.
Responses ==
  {[ok |-> FALSE, items |-> <<>>]}
    \cup {[ok |-> TRUE, items |-> Repeat(p, n)] : p \in Patterns, n \in ResponseLens}

\* Answers of the scoring call.  Index lists give the productIndex of each
\* entry in turn; scores are dealt to the entries from a repeated pattern.
IndexLists ==
  {<<1>>, <<2, 1, 2>>, <<3, 11, 1>>, [i \in 1..MaxCandidates |-> MaxCandidates + 1 - i]}
ScorePatterns == {<<Num(0), Num(150), Num(40)>>, <<Num(0 - 5), Undef, Num(100)>>}
Labels == <<"Rising", "", "Declining">>
Levels == <<"Low", "High", "">>

EntriesOf(indices, scores) ==
  [j \in 1..Len(indices) |->
    Entry(Num(indices[j]), Draw(scores, j), Draw(Labels, j), Draw(Levels, j),
          IF j % 2 = 0 THEN "" ELSE "Sells well")]

\* Entries for the positions 1 to 10, in order.
EntriesInOrder == EntriesOf([i \in 1..MaxSummaries |-> i], <<Num(90), Num(60), Num(100)>>)

\* [entry 1, null, entry 3]
EntriesWithNull ==
  <<Entry(Num(1), Num(88), "Rising", "Low", "Sells well"), NullEntry,
    Entry(Num(3), Num(66), "Stable", "High", "")>>

Outcomes ==
  {[kind |-> k, entries |-> <<>>] :
      k \in {"reject", "nochoices", "unparseable", "null", "productsNotArray", "scalar"}}
    \cup {[kind |-> "products", entries |-> EntriesOf(ix, sc)] :
            ix \in IndexLists, sc \in ScorePatterns}
    \cup {[kind |-> k, entries |-> EntriesInOrder] : k \in {"products", "values", "nested"}}
    \cup {[kind |-> "products", entries |-> e] : e \in {<<>>, EntriesWithNull}}
NoOutcome == [kind |-> "none", entries |-> <<>>]

\* Streams of random numbers.
RandomStreams ==
  {<<0>>, <<RandomSteps - 1>>, <<RandomSteps \div 2, RandomSteps \div 2 + 1, 0, RandomSteps - 1>>}

(***************************************************************************)
(* State.                                                                  *)
(***************************************************************************)
\* server.js 68-73
InitialCategories ==
  <<"viral gadgets", "beauty products", "home decor", "fitness equipment",
    "tech accessories", "kitchen gadgets", "pet supplies", "fashion accessories",
    "phone cases", "car accessories", "gaming accessories", "smart home devices",
    "makeup", "skincare", "jewelry", "workout gear", "led lights", "desk accessories">>

NumSelected == 3
MaxItemsPerCategory == 8

VARIABLES
  config,               \* config.json: [apiKey, openaiKey], "" when absent
  openai,               \* the cached client: "" (null) or the key it was built with
  TRENDING_CATEGORIES,  \* the catalog array
  pc,                   \* "idle", "fetch", "scoring" or "done" ("pooled" in SpecEnglish)
  selectedCategories,   \* the categories of the request
  queried,              \* what each category queried so far came to
  data,                 \* the products of an answer received and not yet processed
  allProducts,          \* the pool
  validProducts,        \* the candidates
  pending,              \* productsWithAnalysis while the scoring call is out
  ai,                   \* the client the scoring call was made with
  aiCalls,              \* scoring calls made by the request
  outcome,              \* what the scoring call produced
  analyzedProducts,     \* what analyzeProductsWithAI returned, before the sort
  response              \* the response sent

vars ==
  <<config, openai, TRENDING_CATEGORIES, pc, selectedCategories, queried, data,
    allProducts, validProducts, pending, ai, aiCalls, outcome, analyzedProducts,
    response>>

NoResponse == [success |-> FALSE, products |-> <<>>, niches |-> <<>>,
               totalProducts |-> 0, error |-> "none"]

\* The process starts with whatever config.json holds and no client.
Init ==
  /\ config \in [apiKey : {"", "key"}, openaiKey : {"", "sk-1"}]
  /\ openai = ""
  /\ TRENDING_CATEGORIES = InitialCategories
  /\ pc = "idle"
  /\ selectedCategories = <<>>
  /\ queried = <<>>
  /\ data = <<>>
  /\ allProducts = <<>>
  /\ validProducts = <<>>
  /\ pending = <<>>
  /\ ai = ""
  /\ aiCalls = 0
  /\ outcome = NoOutcome
  /\ analyzedProducts = <<>>
  /\ response = NoResponse

(***************************************************************************)
(* Operations.  A step is what runs between two waits of the event loop.   *)
(* Requests for recommendations are served one after the other; config     *)
(* saves arrive at any wait.  The Gemini key and client, which the          *)
(* recommendations never read, are left out.                               *)
(***************************************************************************)
\* The orders TRENDING_CATEGORIES.sort(() => Math.random() - 0.5) may leave:
\* here, the element at one of the first MaxShuffle places moved to the front.
MaxShuffle == 2
MoveToFront(seq, i) ==
  <<seq[i]>> \o SubSeq(seq, 1, i - 1) \o SubSeq(seq, i + 1, Len(seq))
Shuffles(seq) == {MoveToFront(seq, i) : i \in 1..MaxShuffle}

\* Mutant: a client is there whether or not a key is configured.
getOpenAIUnconfigured == IF openai # "" THEN openai ELSE "sk-1"

\* server.js 44-52: getOpenAI(): the cached client, else one built from the
\* stored key, else null.
getOpenAI == IF openai # "" THEN openai ELSE config.openaiKey

\* server.js 341-396: the products one answered category adds to the pool.
processed(items, category) ==
  [i \in 1..Len(Take(items, MaxItemsPerCategory)) |-> processItem(items[i], category)]

englishProducts(items, category) ==
  LET English(prods) == KeepIndices(prods, {i \in 1..Len(prods) : isEnglish(prods[i].title)})
  IN English(processed(items, category))

\* Whether the body of the per-category try block raises on these items.
processingThrows(items) ==
  \E i \in 1..Len(Take(items, MaxItemsPerCategory)) :
    \/ PriceThrows(items[i])
    \/ isEnglishThrows(Or2(items[i].product_name, items[i].title))

QueryResult(category, status, pushed) ==
  [category |-> category, status |-> status, pushed |-> pushed]

\* server.js 232-235 inside 325-400: with no apiKey stored, scrapecreators
\* raises at once for every category still to query, and each is caught.
WithoutKey(q, cats) ==
  q \o [j \in 1..(Len(cats) - Len(q)) |-> QueryResult(cats[Len(q) + j], "nokey", 0)]

\* server.js 404-468 up to the scoring call: the empty-pool answer, or the
\* candidates, their margins and sourcing, and the scoring without a client.
Finish(pool, q) ==
  /\ allProducts' = pool
  /\ queried' = q
  /\ aiCalls' = IF pool # <<>> /\ getOpenAI # "" THEN 1 ELSE 0
  /\ outcome' = NoOutcome
  /\ IF pool = <<>>
       THEN /\ response' = failureResponse("No products found. Try again or check your API key.")
            /\ analyzedProducts' = <<>>
            /\ pc' = "done"
            /\ validProducts' = <<>>
            /\ pending' = <<>>
            /\ ai' = ""
            /\ UNCHANGED openai
       ELSE /\ validProducts' = validProductsOf(pool)
            /\ pending' = productsWithAnalysisOf(validProductsOf(pool))
            /\ openai' = getOpenAI
            /\ ai' = getOpenAI
            /\ IF getOpenAI = ""
                 THEN /\ pc' = "done"
                      /\ \E stream \in RandomStreams :
                           /\ analyzedProducts' =
                                scoreWithoutClient(productsWithAnalysisOf(validProductsOf(pool)), stream)
                           /\ response' = successResponse(analyzedProducts')
                 ELSE /\ pc' = "scoring"
                      /\ analyzedProducts' = <<>>
                      /\ response' = NoResponse

\* server.js 325-331: the loop goes on to the next category and waits for its
\* answer, or is over.
Advance(pool, q, cats) ==
  IF Len(q) < Len(cats) /\ config.apiKey # ""
    THEN /\ pc' = "fetch"
         /\ allProducts' = pool
         /\ queried' = q
         /\ validProducts' = <<>>
         /\ pending' = <<>>
         /\ ai' = ""
         /\ aiCalls' = 0
         /\ outcome' = NoOutcome
         /\ analyzedProducts' = <<>>
         /\ response' = NoResponse
         /\ UNCHANGED openai
    ELSE Finish(pool, WithoutKey(q, cats))

\* GET /api/recommendations arrives (server.js 311-331).
Request ==
  /\ pc = "idle"
  /\ \E shuffled \in Shuffles(TRENDING_CATEGORIES) :
       /\ TRENDING_CATEGORIES' = shuffled
       /\ selectedCategories' = Take(shuffled, NumSelected)
       /\ Advance(<<>>, <<>>, Take(shuffled, NumSelected))
  /\ UNCHANGED <<config, data>>

\* server.js 326-399: what the try block of one category comes to: "failed"
\* when the query raises, "threw" when the processing raises, else "ok".
statusOf(resp) ==
  IF ~resp.ok THEN "failed" ELSE IF processingThrows(resp.items) THEN "threw" ELSE "ok"

\* Mutant: a category that fails empties the pool.
poolAfterReset(pool, resp, category) ==
  IF resp.ok /\ ~processingThrows(resp.items)
    THEN pool \o englishProducts(resp.items, category) ELSE <<>>

\* server.js 396-399: the pool after one category: its English products are
\* pushed, or the catch block leaves the pool as it is.
poolAfter(pool, resp, category) ==
  IF statusOf(resp) = "ok" THEN pool \o englishProducts(resp.items, category) ELSE pool

\* The upstream answers the query of the current category with one of
\* responses (server.js 327-400).
FetchCategoryOf(responses) ==
  /\ pc = "fetch"
  /\ \E resp \in responses :
       LET category == selectedCategories[Len(queried) + 1]
           pushed == IF statusOf(resp) = "ok"
                       THEN Len(englishProducts(resp.items, category)) ELSE 0
       IN Advance(poolAfter(allProducts, resp, category),
                  Append(queried, QueryResult(category, statusOf(resp), pushed)),
                  selectedCategories)
  /\ UNCHANGED <<config, TRENDING_CATEGORIES, selectedCategories, data>>

FetchCategory == FetchCategoryOf(Responses)

\* The scoring call settles (server.js 166-196, 439-468): the merge, or the
\* catch branch when anything in the try block raised.
ScoringDone ==
  /\ pc = "scoring"
  /\ \E o \in Outcomes :
       /\ outcome' = o
       /\ IF tryThrows(pending, o)
            THEN \E stream \in RandomStreams :
                   analyzedProducts' = scoreAfterError(pending, stream)
            ELSE analyzedProducts' = mergeAll(pending, o)
       /\ response' = successResponse(analyzedProducts')
  /\ pc' = "done"
  /\ UNCHANGED <<config, openai, TRENDING_CATEGORIES, selectedCategories, queried, data,
                 allProducts, validProducts, pending, ai, aiCalls>>

\* POST /api/config (server.js 214-228) with a body of bodies; "keep" stands
\* for a key the body does not hold.
ApiKeys == {"", "key"}
OpenAIKeys == {"", "sk-1", "sk-2"}
Bodies == [apiKey : ApiKeys \cup {"keep"}, openaiKey : OpenAIKeys \cup {"keep"}]
\* Mutant: a save that sets the openaiKey leaves the cached client in place.
SaveConfigKeepingClient(bodies) ==
  /\ pc # "done"
  /\ \E body \in bodies :
       config' = [apiKey |-> IF body.apiKey = "keep" THEN config.apiKey ELSE body.apiKey,
                  openaiKey |-> IF body.openaiKey = "keep" THEN config.openaiKey
                                ELSE body.openaiKey]
  /\ UNCHANGED <<openai, TRENDING_CATEGORIES, pc, selectedCategories, queried, data,
                 allProducts, validProducts, pending, ai, aiCalls, outcome,
                 analyzedProducts, response>>

SaveConfigOf(bodies) ==
  /\ pc # "done"
  /\ \E body \in bodies :
       /\ config' = [apiKey |-> IF body.apiKey = "keep" THEN config.apiKey ELSE body.apiKey,
                     openaiKey |-> IF body.openaiKey = "keep" THEN config.openaiKey
                                   ELSE body.openaiKey]
       /\ openai' = IF body.openaiKey = "keep" THEN openai ELSE ""
  /\ UNCHANGED <<TRENDING_CATEGORIES, pc, selectedCategories, queried, data, allProducts,
                 validProducts, pending, ai, aiCalls, outcome, analyzedProducts, response>>

\* The saves of Spec change the apiKey only.
SaveConfig == SaveConfigOf({body \in Bodies : body.apiKey # "keep" /\ body.openaiKey = "keep"})

\* The response has been sent: the locals of the request are gone.
Complete ==
  /\ pc = "done"
  /\ pc' = "idle"
  /\ selectedCategories' = <<>>
  /\ queried' = <<>>
  /\ allProducts' = <<>>
  /\ validProducts' = <<>>
  /\ pending' = <<>>
  /\ ai' = ""
  /\ aiCalls' = 0
  /\ outcome' = NoOutcome
  /\ analyzedProducts' = <<>>
  /\ response' = NoResponse
  /\ UNCHANGED <<config, openai, TRENDING_CATEGORIES, data>>

Next == Request \/ FetchCategory \/ ScoringDone \/ SaveConfig \/ Complete

Spec == Init /\ [][Next]_vars

(***************************************************************************)
(* Properties.                                                             *)
(***************************************************************************)
Finished == pc = "done"
Returned == response.products
\* The request took the assisted path: one scoring call was made.
Assisted == aiCalls = 1
\* The try block of the assisted path raised.
RaisingKinds == {"reject", "nochoices", "unparseable", "null", "productsNotArray"}
HasNullEntry == \E j \in 1..Len(outcome.entries) : outcome.entries[j].isNull
AssistedRaised ==
  Assisted /\ (outcome.kind \in RaisingKinds \/ (outcome.kind = "products" /\ HasNullEntry))
\* The assisted path merged a list of well-formed entries.
AssistedMerged == Assisted /\ outcome.kind \in {"products", "values"} /\ ~HasNullEntry

ScoreWithin(p, lo, hi) == p.aiScore.t = "num" /\ p.aiScore.n >= lo /\ p.aiScore.n <= hi
InPriceRange(p) ==
  p.price.t = "num" /\ p.price.n > 0 /\ p.price.n < MaxPrice * PriceScale
AllInPriceRange(seq) == \A i \in 1..Len(seq) : InPriceRange(seq[i])
PopularityOf(p) == p.views.n + p.likes.n + p.sold.n
NumericCounters(p) == p.views.t = "num" /\ p.likes.t = "num" /\ p.sold.t = "num"
CountOf(seq, x) == Cardinality({i \in 1..Len(seq) : seq[i] = x})
ScoreKeys == {"aiScore", "trend", "competition", "recommendation"}
\* A scored product without the four fields the scoring adds.
Unscored(p) == [f \in (DOMAIN p) \ ScoreKeys |-> p[f]]

\* C1: every product of a successful response has an integer aiScore with
\* 0 <= aiScore <= 100, whichever scoring path produced it and whatever the
\* scoring collaborator answered.
C1_ScoreInRange ==
  (Finished /\ response.success) =>
    \A i \in 1..Len(Returned) : ScoreWithin(Returned[i], 0, 100)

\* C2: every candidate, and so every product scored or returned, has a price
\* p with 0 < p < 200; a product whose price is 0, negative, NaN or >= 200 is
\* never among them.
C2_PriceInRange ==
  /\ AllInPriceRange(validProducts)
  /\ AllInPriceRange(pending)
  /\ AllInPriceRange(analyzedProducts)
  /\ AllInPriceRange(Returned)

\* C2 witness: products are returned from a pool that held a zero, an
\* unparseable, a negative and a too high price.
C2_Witness ==
  /\ Finished /\ response.success /\ Len(Returned) > 0
  /\ \E i \in 1..Len(allProducts) : allProducts[i].price = Num(0)
  /\ \E i \in 1..Len(allProducts) : allProducts[i].price = NaN
  /\ \E i \in 1..Len(allProducts) : allProducts[i].price.t = "num" /\ allProducts[i].price.n < 0
  /\ \E i \in 1..Len(allProducts) :
       allProducts[i].price.t = "num" /\ allProducts[i].price.n >= MaxPrice * PriceScale

\* C3: the candidates are at most 20, ordered by non-increasing
\* views + likes + sold, and the top of the price-valid pool: all of it when
\* it has at most 20 products, and otherwise no price-valid product left out
\* is strictly more popular than a product kept.
C3_TopCandidates ==
  pc \in {"scoring", "done"} =>
    LET validPool == {i \in 1..Len(allProducts) : InPriceRange(allProducts[i])}
        n == Len(validProducts)
    IN /\ n <= MaxCandidates
       /\ n = IF Cardinality(validPool) < MaxCandidates THEN Cardinality(validPool)
              ELSE MaxCandidates
       /\ \A i \in 1..n : NumericCounters(validProducts[i])
       /\ \A i \in 1..(n - 1) :
            PopularityOf(validProducts[i]) >= PopularityOf(validProducts[i + 1])
       /\ \A i \in 1..n :
            /\ InPriceRange(validProducts[i])
            /\ CountOf(validProducts, validProducts[i]) <= CountOf(allProducts, validProducts[i])
       /\ \A i \in validPool :
            CountOf(validProducts, allProducts[i]) < CountOf(allProducts, allProducts[i]) =>
              \A k \in 1..n : PopularityOf(allProducts[i]) <= PopularityOf(validProducts[k])

\* C3 witness: more than 20 price-valid products were pooled, 20 were kept,
\* and they do not all have the same popularity.
C3_Witness ==
  /\ Finished
  /\ Cardinality({i \in 1..Len(allProducts) : InPriceRange(allProducts[i])}) > MaxCandidates
  /\ Len(validProducts) = MaxCandidates
  /\ PopularityOf(validProducts[1]) > PopularityOf(validProducts[MaxCandidates])

\* C4: the products of a successful response are in non-increasing order of
\* aiScore.
C4_SortedByScore ==
  (Finished /\ response.success) =>
    \A i \in 1..(Len(Returned) - 1) :
      /\ Returned[i].aiScore.t = "num"
      /\ Returned[i + 1].aiScore.t = "num"
      /\ Returned[i].aiScore.n >= Returned[i + 1].aiScore.n

\* C4 witness: the assisted path merged an answer, and the sort moved a
\* product.
C4_Witness ==
  /\ Finished /\ response.success /\ AssistedMerged
  /\ Returned # analyzedProducts
  /\ \E i \in 1..Len(Returned) : Returned[i].aiScore # Returned[1].aiScore

\* C5: when the assisted path fails (the call raises or times out, or its
\* content is unparseable or wrongly shaped), the request still succeeds and
\* every candidate is returned with aiScore, trend, competition and
\* recommendation.
C5_FailureAbsorbed ==
  (Finished /\ Assisted /\ ~AssistedMerged) =>
    /\ response.success
    /\ Len(Returned) = Len(pending)
    /\ \A i \in 1..Len(Returned) :
         /\ Returned[i].aiScore.t = "num"
         /\ Returned[i].trend # ""
         /\ Returned[i].competition # ""
         /\ Returned[i].recommendation # ""
    /\ \A i \in 1..Len(pending) :
         \E j \in 1..Len(Returned) : Unscored(Returned[j]) = pending[i]

\* C5 witness: a call that raised, with candidates to score.
C5_Witness ==
  Finished /\ AssistedRaised /\ outcome.kind = "unparseable" /\ Len(pending) > 1

HasDefaults(p) ==
  p.aiScore = Num(75) /\ p.trend = "Stable" /\ p.competition = "Medium"

\* C7 as claimed: on the assisted path every product at batch position 11 or
\* later gets the defaults, whatever the collaborator returned.
C7_DefaultsBeyondTen ==
  (Finished /\ AssistedMerged) =>
    \A i \in 11..Len(analyzedProducts) : HasDefaults(analyzedProducts[i])

C9_EmptyResultFails ==
  (Finished /\ validProducts = <<>>) => (~response.success /\ response.error # "")

\* C10: a category whose query fails (no credentials, transport error,
\* non-2xx) adds nothing to the pool and does not end the request: every
\* selected category is gone through, the pool holds exactly what the
\* answered categories pushed, and a non-empty pool is ranked and returned.
C10_CategoryFailureContained ==
  pc \in {"scoring", "done"} =>
    /\ Len(queried) = NumSelected
    /\ \A k \in 1..Len(queried) :
         /\ queried[k].category = selectedCategories[k]
         /\ queried[k].status # "ok" => queried[k].pushed = 0
         /\ Cardinality({i \in 1..Len(allProducts) :
                           allProducts[i].category = queried[k].category}) = queried[k].pushed
    /\ (Finished /\ allProducts # <<>>) =>
         /\ response.success
         /\ Len(Returned) = Len(validProducts)
         /\ \A i \in 1..Len(validProducts) :
              \E j \in 1..Len(Returned) :
                Returned[j].category = validProducts[i].category

\* C10 witness: the query of the first category failed, the third category
\* was answered, and its products are returned.
C10_Witness ==
  /\ Finished /\ response.success
  /\ queried[1].status = "failed"
  /\ queried[3].status = "ok" /\ queried[3].pushed > 0
  /\ \E j \in 1..Len(Returned) : Returned[j].category = queried[3].category

\* C11: an upstream item with unexpected or missing fields never raises: no
\* category whose query was answered ends in the catch block because of the
\* shape of one of its items, so the well-formed items of that answer are
\* still normalized and pooled.
C11_ShapeMismatchAbsorbed ==
  \A i \in 1..Len(queried) : queried[i].status # "threw"

Niches == response.niches
MembersOf(category) == {i \in 1..Len(Returned) : Returned[i].category = category}
\* The sum of the aiScore of the first k returned products of a category.
RECURSIVE ScoreTotal(_, _)
ScoreTotal(k, category) ==
  IF k = 0 THEN 0
  ELSE ScoreTotal(k - 1, category)
         + (IF Returned[k].category = category THEN Returned[k].aiScore.n ELSE 0)
\* The sum of the count of the first j niches.
RECURSIVE CountTotal(_)
CountTotal(j) == IF j = 0 THEN 0 ELSE CountTotal(j - 1) + Niches[j].count
Distance(a, b) == IF a >= b THEN a - b ELSE b - a

\* C12: the niche list has exactly one entry for each distinct category of
\* the scored products, the counts add up to the number of scored products,
\* and the avgScore of an entry is the mean of the aiScore of its members
\* rounded to the nearest integer (at most one half away from the mean).
C12_NicheAggregation ==
  (Finished /\ response.success) =>
    /\ \A i \in 1..Len(Returned) :
         \E j \in 1..Len(Niches) : Niches[j].category = Returned[i].category
    /\ \A j, k \in 1..Len(Niches) : Niches[j].category = Niches[k].category => j = k
    /\ CountTotal(Len(Niches)) = Len(Returned)
    /\ \A j \in 1..Len(Niches) :
         /\ Niches[j].count = Cardinality(MembersOf(Niches[j].category))
         /\ Niches[j].count > 0
         /\ Niches[j].avgScore.t = "num"
         /\ 2 * Distance(Niches[j].avgScore.n * Niches[j].count,
                         ScoreTotal(Len(Returned), Niches[j].category))
              <= Niches[j].count

\* C12 witness: a response with several niches, one of them with several
\* members whose mean score is not an integer.
C12_Witness ==
  /\ Finished /\ response.success /\ Len(Niches) >= 2
  /\ \E j \in 1..Len(Niches) :
       /\ Niches[j].count >= 2
       /\ ScoreTotal(Len(Returned), Niches[j].category) % Niches[j].count # 0

\* C13: the niche list of a successful response is sorted by non-increasing
\* rounded avgScore, and each of its categories is one of the categories
\* selected and queried in this request.
C13_NichesSorted ==
  (Finished /\ response.success) =>
    /\ \A j \in 1..(Len(Niches) - 1) :
         /\ Niches[j].avgScore.t = "num"
         /\ Niches[j + 1].avgScore.t = "num"
         /\ Niches[j].avgScore.n >= Niches[j + 1].avgScore.n
    /\ \A j \in 1..Len(Niches) :
         \E k \in 1..Len(selectedCategories) :
           /\ selectedCategories[k] = Niches[j].category
           /\ queried[k].category = Niches[j].category

\* C13 witness: several niches with different averages, the first of them
\* not the category of the best product (the sort moved it to the front).
C13_Witness ==
  /\ Finished /\ response.success /\ Len(Niches) >= 2
  /\ Niches[1].avgScore.n > Niches[Len(Niches)].avgScore.n
  /\ Niches[1].category # Returned[1].category

\* C14: the engagement of every Product built from an upstream item is
\* likes / views * 100 rounded to 2 decimals (at most half a hundredth away
\* from the quotient) when its views is greater than 0, whichever upstream
\* key supplied views and likes, and is 0 when its views is 0 or absent.
C14_EngagementFormula ==
  \A i \in 1..Len(allProducts) :
    LET p == allProducts[i]
    IN IF Positive(p.views)
         THEN /\ p.likes.t = "num"
              /\ 2 * Distance(p.engagement.hundredths * p.views.n, p.likes.n * 10000)
                   <= p.views.n
         ELSE p.engagement.hundredths = 0

\* What one selected category contributed to the pool, and the pool when the
\* contributions are pushed in another order of the categories.
ByCategory(category) ==
  KeepIndices(allProducts, {i \in 1..Len(allProducts) : allProducts[i].category = category})
RECURSIVE PooledIn(_)
PooledIn(categories) ==
  IF categories = <<>> THEN <<>>
  ELSE ByCategory(Head(categories)) \o PooledIn(Tail(categories))
PoolingOrders ==
  {o \in [1..Len(selectedCategories) -> 1..Len(selectedCategories)] :
     \A j, k \in 1..Len(selectedCategories) : o[j] = o[k] => j = k}
SameProducts(a, b) ==
  \A i \in 1..Len(allProducts) : CountOf(a, allProducts[i]) = CountOf(b, allProducts[i])

\* C15: the candidates of a run do not depend on the order in which the
\* results of the selected categories are pooled: pooling the same
\* per-category results in any other order selects the same products.
C15_PoolingOrderIndependent ==
  (pc \in {"scoring", "done"} /\ allProducts # <<>>) =>
    \A o \in PoolingOrders :
      SameProducts(
        validProductsOf(PooledIn([k \in 1..Len(selectedCategories) |-> selectedCategories[o[k]]])),
        validProducts)

\* C16: a run of the recommendations pipeline leaves unchanged every
\* in-memory value a later run reads, other than the configuration and the
\* client handle made from it: the category catalog keeps its contents and
\* its order through every step of every request.
C16_CatalogUnchanged ==
  [][TRENDING_CATEGORIES' = TRENDING_CATEGORIES]_vars

(***************************************************************************)
(* calculateMargins over every whole-cent price of the valid range: the    *)
(* candidate is built from an item priced in minor units, and one step     *)
(* adds its margins and sourcing (server.js 429-433).                      *)
(***************************************************************************)
CentsPerDollar == 100
ValidCents == 1..(MaxPrice * CentsPerDollar - 1)
PricedItem(cents) ==
  [EmptyItem EXCEPT !.price = Num(cents), !.title = Str(<<"L", "e", "d">>)]

MarginsInit ==
  /\ config = [apiKey |-> "key", openaiKey |-> ""]
  /\ openai = ""
  /\ TRENDING_CATEGORIES = InitialCategories
  /\ pc = "idle"
  /\ selectedCategories = <<>>
  /\ queried = <<>>
  /\ data = <<>>
  /\ \E cents \in ValidCents :
       /\ allProducts = <<processItem(PricedItem(cents), InitialCategories[1])>>
       /\ validProducts = validProductsOf(allProducts)
  /\ pending = <<>>
  /\ ai = ""
  /\ aiCalls = 0
  /\ outcome = NoOutcome
  /\ analyzedProducts = <<>>
  /\ response = NoResponse

AddMargins ==
  /\ pending = <<>>
  /\ validProducts # <<>>
  /\ pending' = productsWithAnalysisOf(validProducts)
  /\ UNCHANGED <<config, openai, TRENDING_CATEGORIES, pc, selectedCategories, queried,
                 data, allProducts, validProducts, ai, aiCalls, outcome, analyzedProducts,
                 response>>

SpecMargins == MarginsInit /\ [][AddMargins]_vars

\* The price of a product in cents (its price is a whole number of cents).
CentsOf(p) == p.price.n \div (PriceScale \div CentsPerDollar)
\* A value in cents is the exact value num / den cents rounded to 2 decimals
\* of a dollar: at most half a cent away.
WithinHalfCent(value, num, den) == 2 * Distance(value * den, num) <= den

\* C17: for every whole-cent price p in (0, 200), calculateMargins returns
\* supplierPrice = 0.30p, shippingCost = 5.00, adCost = 0.25p, platformFees =
\* 0.15p, totalCost = their sum and profit = p - totalCost, each within the
\* rounding of 2 decimals; a price of 100 gives profitMargin 25.0.
C17_MarginsNumerics ==
  \A i \in 1..Len(pending) :
    LET m == pending[i].margins
        c == CentsOf(pending[i])
    IN /\ m.sellingPrice = pending[i].price
       /\ WithinHalfCent(m.supplierPrice, 30 * c, 100)
       /\ m.shippingCost = 5 * CentsPerDollar
       /\ WithinHalfCent(m.adCost, 25 * c, 100)
       /\ WithinHalfCent(m.platformFees, 15 * c, 100)
       /\ WithinHalfCent(m.totalCost, 30 * c + 500 * 100 + 25 * c + 15 * c, 100)
       /\ WithinHalfCent(m.profit, 100 * c - (30 * c + 500 * 100 + 25 * c + 15 * c), 100)
       /\ c = 100 * CentsPerDollar => m.profitMargin = 250

\* C17 witness: the margins of a price of 100 were computed, with a loss-free
\* 25.0 percent margin.
C17_Witness ==
  /\ pending # <<>>
  /\ CentsOf(pending[1]) = 100 * CentsPerDollar
  /\ pending[1].margins.profitMargin = 250
  /\ pending[1].margins.totalCost = 75 * CentsPerDollar

(***************************************************************************)
(* The language filter over every short title: an answer holding one item  *)
(* with a valid price and the title has arrived, and one step processes it *)
(* and pushes its English products (server.js 341-396).                    *)
(***************************************************************************)
MaxTitleLen == 4
TitleChars == {"a", "Z", "1", " ", "品"}
RECURSIVE TextsOf(_)
TextsOf(n) ==
  IF n = 0 THEN {<<>>}
  ELSE TextsOf(n - 1) \cup {Append(s, c) : s \in TextsOf(n - 1), c \in TitleChars}
Titles == {Str(s) : s \in TextsOf(MaxTitleLen)} \cup {Undef}
TitledItem(text) == [EmptyItem EXCEPT !.price = Num(1500), !.title = text]

EnglishInit ==
  /\ config = [apiKey |-> "key", openaiKey |-> ""]
  /\ openai = ""
  /\ TRENDING_CATEGORIES = InitialCategories
  /\ pc = "fetch"
  /\ selectedCategories = <<InitialCategories[1]>>
  /\ queried = <<>>
  /\ \E text \in Titles : data = <<TitledItem(text)>>
  /\ allProducts = <<>>
  /\ validProducts = <<>>
  /\ pending = <<>>
  /\ ai = ""
  /\ aiCalls = 0
  /\ outcome = NoOutcome
  /\ analyzedProducts = <<>>
  /\ response = NoResponse

PoolEnglish ==
  /\ pc = "fetch"
  /\ data # <<>>
  /\ LET resp == [ok |-> TRUE, items |-> data]
         category == selectedCategories[Len(queried) + 1]
     IN /\ allProducts' = poolAfter(allProducts, resp, category)
        /\ queried' = Append(queried,
                             QueryResult(category, statusOf(resp),
                                         Len(englishProducts(data, category))))
  /\ pc' = "pooled"
  /\ UNCHANGED <<config, openai, TRENDING_CATEGORIES, selectedCategories, data,
                 validProducts, pending, ai, aiCalls, outcome, analyzedProducts,
                 response>>

SpecEnglish == EnglishInit /\ [][PoolEnglish]_vars

\* The title the normalizer gives the product of the answer: the text of the
\* item, or the placeholder when the item has none.
TitleGiven ==
  IF data[1].title.t = "str" /\ data[1].title.s # <<>>
    THEN data[1].title.s ELSE <<"N", "o", " ", "t", "i", "t", "l", "e">>
RECURSIVE LettersIn(_)
LettersIn(chars) ==
  IF chars = <<>> THEN 0
  ELSE LettersIn(Tail(chars)) + (IF Head(chars) \in AsciiLetters THEN 1 ELSE 0)
RECURSIVE VisibleIn(_)
VisibleIn(chars) ==
  IF chars = <<>> THEN 0
  ELSE VisibleIn(Tail(chars)) + (IF Head(chars) = " " THEN 0 ELSE 1)
Pooled == pc = "pooled" /\ allProducts # <<>>

\* C18 as stated: the product is pooled exactly when its title is non-empty
\* and its ASCII letters are at least half of its non-whitespace characters.
C18_EnglishOnly ==
  pc = "pooled" =>
    /\ \A i \in 1..Len(allProducts) : allProducts[i].title.s = TitleGiven
    /\ Pooled <=> (TitleGiven # <<>> /\ 2 * LettersIn(TitleGiven) >= VisibleIn(TitleGiven))

\* C18 amended: the product is pooled exactly when its title has at least one
\* non-whitespace character and its ASCII letters are at least half of its
\* non-whitespace characters; a title of white space only is not English.
C18_EnglishVisible ==
  pc = "pooled" =>
    /\ \A i \in 1..Len(allProducts) : allProducts[i].title.s = TitleGiven
    /\ Pooled <=> (VisibleIn(TitleGiven) > 0 /\ 2 * LettersIn(TitleGiven) >= VisibleIn(TitleGiven))

\* C18 witness: a title with white space whose letters are exactly half of
\* its other characters was pooled.
C18_Witness ==
  /\ Pooled
  /\ VisibleIn(TitleGiven) < Len(TitleGiven)
  /\ 2 * LettersIn(TitleGiven) = VisibleIn(TitleGiven)

\* The entries of the answer keyed by the position k.
KeyedBy(k) ==
  {j \in 1..Len(outcome.entries) : Matches(outcome.entries[j], k)}
\* The product received what the entry carries: its score when it is a score
\* from 0 to 100, its trend and its competition when it states them.
Received(p, e) ==
  /\ (e.aiScore.t = "num" /\ e.aiScore.n >= 0 /\ e.aiScore.n <= 100) => p.aiScore = e.aiScore
  /\ e.trend # "" => p.trend = e.trend
  /\ e.competition # "" => p.competition = e.competition

\* C19: on the assisted path, for each position k from 1 to 10, the product
\* at k receives the score (any score from 0 to 100, 0 included), trend and
\* competition of an assessment keyed by k when the answer holds one, and the
\* defaults 75, Stable, Medium when it holds none; no assessment is applied
\* at another position.
C19_PositionKeyedMerge ==
  (Finished /\ AssistedMerged) =>
    \A k \in 1..Len(analyzedProducts) :
      k <= MaxSummaries =>
        IF KeyedBy(k) = {}
          THEN HasDefaults(analyzedProducts[k])
          ELSE \E j \in KeyedBy(k) : Received(analyzedProducts[k], outcome.entries[j])

(***************************************************************************)
(* The requests with every save of the configuration: POST /api/config may *)
(* set, change or clear either key at any wait of a request.               *)
(***************************************************************************)
SaveAnyConfig == SaveConfigOf(Bodies)
\* The answers of a category here: the query fails, or it returns three
\* valid records.
ConfigResponses == {[ok |-> FALSE, items |-> <<>>], [ok |-> TRUE, items |-> PatternValid]}
FetchAnswer == FetchCategoryOf(ConfigResponses)
NextConfig == Request \/ FetchAnswer \/ ScoringDone \/ SaveAnyConfig \/ Complete
SpecConfig == Init /\ [][NextConfig]_vars

\* C20: within one request the scoring collaborator is called at most once;
\* a call is made only in a step that finds a scoring collaborator
\* configured; and once the call is out or has settled, failed or not, the
\* request makes no other call.
C20_SingleScoringCall ==
  [][/\ aiCalls' <= 1
     /\ aiCalls' > aiCalls => (pc \in {"idle", "fetch"} /\ config.openaiKey # "")
     /\ pc \in {"scoring", "done"} => aiCalls' <= aiCalls]_vars

\* C20 witness: the one call of a request failed and the request ended on
\* the fallback scores.
C20_Witness ==
  /\ Finished /\ AssistedRaised /\ aiCalls = 1
  /\ response.success /\ Len(Returned) > 0

(***************************************************************************)
(* The frame of the scoring (server.js 137-197, 429-436).                  *)
(***************************************************************************)
CandidateKeys == {"title", "price", "category", "margins", "sourcing"}

\* C21: on every scoring path (no client, merge, catch branch) the scoring
\* returns one product for each candidate it was given, in the order given;
\* the i-th keeps every field of the i-th candidate unchanged, title, price,
\* category, margins and sourcing among them, and has aiScore, trend,
\* competition and recommendation as its only additional fields.
C21_ScoringFrame ==
  (Finished /\ response.success) =>
    /\ Len(analyzedProducts) = Len(pending)
    /\ \A i \in 1..Len(pending) :
         /\ CandidateKeys \subseteq DOMAIN pending[i]
         /\ ScoreKeys \cap DOMAIN pending[i] = {}
         /\ DOMAIN analyzedProducts[i] = (DOMAIN pending[i]) \cup ScoreKeys
         /\ \A f \in DOMAIN pending[i] : analyzedProducts[i][f] = pending[i][f]

\* A scoring call was answered and merged over more candidates than the
\* prompt summarises, no two of them alike.
C21_Witness ==
  /\ Finished /\ response.success /\ AssistedMerged
  /\ Len(pending) > MaxSummaries
  /\ Len(analyzedProducts) = Len(pending)
  /\ \E i, j \in 1..Len(pending) : pending[i] # pending[j]

(***************************************************************************)
(* The cached client and the stored key (server.js 42-52, 138, 214-228).   *)
(***************************************************************************)
\* The step in which analyzeProductsWithAI is entered and getOpenAI() read.
ScoringStarts ==
  /\ pc \in {"idle", "fetch"}
  /\ pc' = "scoring" \/ (pc' = "done" /\ response'.success)

\* C22: with config saves and recommendation requests interleaved in any
\* way, a save that changes the openaiKey leaves no cached client; a cached
\* client is always one built from the key now stored; and a scoring that
\* starts uses the client of the key stored at that moment, built and cached
\* then if need be, or no client and the heuristic path when that key is
\* empty.
C22_ClientFollowsStoredKey ==
  [][/\ config'.openaiKey # config.openaiKey => openai' = ""
     /\ openai' # "" => openai' = config'.openaiKey
     /\ ScoringStarts =>
          /\ ai' = config.openaiKey
          /\ openai' = config.openaiKey
          /\ config.openaiKey = "" <=> (pc' = "done" /\ aiCalls' = 0)
          /\ config.openaiKey # "" <=> (pc' = "scoring" /\ aiCalls' = 1)]_vars

\* A scoring call made with a client of a key that only a save can have
\* stored, and settled.
C22_Witness ==
  /\ Finished /\ response.success /\ aiCalls = 1
  /\ ai = "sk-2" /\ openai = "sk-2" /\ config.openaiKey = "sk-2"
====
